---------------------------- MODULE Spec2Model ----------------------------
(***************************************************************************)
(* Model of aimm_adapters/aimm_ingest.py: the filename / column-header     *)
(* classifiers (parse_filename, parse_filename_gihyeok,                    *)
(* parse_filename_nslsii, get_experiment_params, the per-column charge     *)
(* resolvers) and the batch loops that call them.                          *)
(*                                                                         *)
(* Python strings are TLA+ strings; "t in s" is substring containment.     *)
(* A voltage is kept in tenths of a volt (4.3 V is 43, 0.0 V is 0).        *)
(* A call ends in a record: [exc |-> "none", ret |-> value] when it        *)
(* returns and [exc |-> <exception type>, msg |-> <message>] when it       *)
(* raises.                                                                 *)
(***************************************************************************)
EXTENDS Integers, Sequences, FiniteSets, TLC

VARIABLES
    source,     \* the naming convention the input string is written in
    name,       \* the string handed to a classifier
    nfrags,     \* how many fragments name was assembled from
    result,     \* outcome of the last classifier call, NoCall before it
    loop,       \* the ingest function that is running, "none" if none is
    files,      \* its directory listing: list(data_path.glob("*.txt"))
    idx,        \* position of the for loop in files (1-based)
    catalog,    \* metadata of the records held by the catalog, c["uid"]
    printed,    \* the diagnostics printed so far
    ops,        \* the catalog operations made so far: <<"delete" or
                \* "write", fname of the record>>
    status,     \* "idle", "running", "done" or "raised"
    raised,     \* the exception that left the ingest function, if any
    calls,      \* the classifier calls a caller made: [fn, arg, out]
    table,      \* the experiment_to_params_map object of the latest call of
                \* get_experiment_params, as the caller's changes to the
                \* records it returned have left it; {} before any call
    held,       \* the records the calls returned to the caller, who may
                \* change them: one per call, {} for a call that raised
    run,        \* how many runs of update_alignment_ncm_wanli have begun
    spectra,    \* the search results of the current sample still to visit
    nuid,       \* how many keys the catalog has issued
    file_data,  \* the entries handed to a simulation ingest
    structure_id  \* the local variable structure_id of a simulation ingest

classify_vars == <<source, name, nfrags, result>>

ingest_vars == <<loop, files, idx, catalog, printed, ops, status, raised>>

repeat_vars == <<calls, table, held>>

align_vars == <<run, spectra, nuid>>

sim_vars == <<file_data, structure_id>>

vars == <<classify_vars, ingest_vars, repeat_vars, align_vars, sim_vars>>

(***************************************************************************)
(* Bounds.                                                                 *)
(***************************************************************************)
MaxFrags == 3

MaxFiles == 2

\* records the catalog may hold of one file before a run
MaxCopies == 2

\* classifier calls one caller makes
MaxCalls == 3

\* Ni L3 spectra the catalog holds when update_alignment_ncm_wanli begins
MaxSpectra == 2

\* runs of update_alignment_ncm_wanli on one catalog
MaxRuns == 2

\* entries of the file a simulation ingest reads
MaxEntries == 2

(***************************************************************************)
(* String helpers (Python str semantics).                                  *)
(***************************************************************************)
Char(s, i) == SubSeq(s, i, i)

\* Python: t in s
Contains(s, t) ==
    \E i \in 1..(Len(s) - Len(t) + 1) : SubSeq(s, i, i + Len(t) - 1) = t

IsDigit(c) == c \in {"0", "1", "2", "3", "4", "5", "6", "7", "8", "9"}

Return(v) == [exc |-> "none", ret |-> v]

Raise(e, m) == [exc |-> e, msg |-> m]

\* dict(zip(["cycle", "voltage", "state"], charge))
\* ChargeDict zipping only the first two keys
ChargeDict_two_keys(c) == [cycle |-> c[1], voltage |-> c[2]]

ChargeDict(c) == [cycle |-> c[1], voltage |-> c[2], state |-> c[3]]

(***************************************************************************)
(* re.search of a digit run followed by V in name: the leftmost position  *)
(* at which a (possibly empty) run of digits followed by V starts; the run *)
(* is greedy.                                                              *)
(* The result is the set of matches found: empty for None, else one match. *)
(***************************************************************************)
MatchEnds(s, i) ==
    {j \in i..Len(s) : Char(s, j) = "V"
                       /\ \A k \in i..(j - 1) : IsDigit(Char(s, k))}

re_search_voltage(s) ==
    LET starts == {i \in 1..Len(s) : MatchEnds(s, i) # {}}
    IN  IF starts = {} THEN {}
        ELSE LET i == CHOOSE a \in starts : \A b \in starts : a <= b
                 j == CHOOSE a \in MatchEnds(s, i) :
                         \A b \in MatchEnds(s, i) : a >= b
             IN  {SubSeq(s, i, j)}

(***************************************************************************)
(* parse_filename (Wanli's data).                                          *)
(***************************************************************************)
\* parse_filename_voltage with the 48V branch carrying the 43V values
parse_filename_voltage_copied_branch(voltage_str) ==
    IF voltage_str = "43V" THEN Return(<<43, "C">>)
    ELSE IF voltage_str = "48V" THEN Return(<<43, "C">>)
    ELSE IF voltage_str = "3V" THEN Return(<<30, "DC">>)
    ELSE Raise("KeyError", "unable to parse voltage from " \o voltage_str)

parse_filename_voltage(voltage_str) ==
    IF voltage_str = "43V" THEN Return(<<43, "C">>)
    ELSE IF voltage_str = "48V" THEN Return(<<48, "C">>)
    ELSE IF voltage_str = "3V" THEN Return(<<30, "DC">>)
    ELSE Raise("KeyError", "unable to parse voltage from " \o voltage_str)

\* parse_filename_sample testing the general token 712 before 712_Al_free
parse_filename_sample_general_first(s) ==
    IF Contains(s, "622") THEN Return("BM_NCM622")
    ELSE IF Contains(s, "NCMA") THEN Return("BM_NCMA")
    ELSE IF Contains(s, "712") THEN Return("BM_NCM712-Al")
    ELSE IF Contains(s, "712_Al_free") THEN Return("BM_NCM712")
    ELSE IF Contains(s, "811") THEN Return("BM_NCM811")
    ELSE Raise("KeyError", "unable to parse sample from " \o s)

parse_filename_sample(s) ==
    IF Contains(s, "622") THEN Return("BM_NCM622")
    ELSE IF Contains(s, "NCMA") THEN Return("BM_NCMA")
    ELSE IF Contains(s, "712_Al_free") THEN Return("BM_NCM712")
    ELSE IF Contains(s, "712") THEN Return("BM_NCM712-Al")
    ELSE IF Contains(s, "811") THEN Return("BM_NCM811")
    ELSE Raise("KeyError", "unable to parse sample from " \o s)

parse_filename_cycle(s) ==
    IF Contains(s, "1st") THEN Return(1)
    ELSE IF Contains(s, "2nd") THEN Return(2)
    ELSE IF Contains(s, "10th") THEN Return(10)
    ELSE Raise("KeyError", "unable to parse cycle from " \o s)

\* parse_filename_pristine spelling the marker in lower case
parse_filename_pristine_lower_case(s) == Contains(s, "pristine")

parse_filename_pristine(s) == Contains(s, "Pristine")

parse_filename(s) ==
    LET sample == parse_filename_sample(s)
    IN  IF sample.exc # "none" THEN sample
        ELSE IF sample.ret = "Ni_metal" THEN Return(<<sample.ret, "None">>)
        ELSE IF parse_filename_pristine(s)
             THEN Return(<<sample.ret, ChargeDict(<<0, 0, "DC">>)>>)
        ELSE LET cycle == parse_filename_cycle(s)
                 m == re_search_voltage(s)
             IN  IF cycle.exc # "none" THEN cycle
                 ELSE IF m = {}
                      THEN Raise("TypeError",
                                 "'NoneType' object is not subscriptable")
                 ELSE LET vs == parse_filename_voltage(CHOOSE x \in m : TRUE)
                      IN  IF vs.exc # "none" THEN vs
                          ELSE Return(<<sample.ret,
                                        ChargeDict(<<cycle.ret, vs.ret[1],
                                                     vs.ret[2]>>)>>)

(***************************************************************************)
(* parse_filename_gihyeok (Gihyeok's data): sample and element symbol.     *)
(***************************************************************************)
\* parse_filename_gihyeok_sample with the 811 test moved to the front
parse_filename_gihyeok_sample_811_first(s) ==
    IF Contains(s, "811") THEN Return("BM_NCM811")
    ELSE IF Contains(s, "622") THEN Return("BM_NCM622")
    ELSE IF Contains(s, "NCMA") THEN Return("BM_NCMA")
    ELSE IF Contains(s, "712_Al-doped") THEN Return("BM_NCM712-Al")
    ELSE IF Contains(s, "712") THEN Return("BM_NCM712")
    ELSE Raise("KeyError", "unable to parse sample from " \o s)

parse_filename_gihyeok_sample(s) ==
    IF Contains(s, "622") THEN Return("BM_NCM622")
    ELSE IF Contains(s, "NCMA") THEN Return("BM_NCMA")
    ELSE IF Contains(s, "712_Al-doped") THEN Return("BM_NCM712-Al")
    ELSE IF Contains(s, "712") THEN Return("BM_NCM712")
    ELSE IF Contains(s, "811") THEN Return("BM_NCM811")
    ELSE Raise("KeyError", "unable to parse sample from " \o s)

\* parse_filename_gihyeok_symbol testing Ni before Co
parse_filename_gihyeok_symbol_Ni_first(s) ==
    IF Contains(s, "Ni") THEN Return("Ni")
    ELSE IF Contains(s, "Co") THEN Return("Co")
    ELSE IF Contains(s, "Mn") THEN Return("Mn")
    ELSE IF Contains(s, "O") THEN Return("O")
    ELSE Raise("KeyError", "unable to parse symbol from " \o s)

parse_filename_gihyeok_symbol(s) ==
    IF Contains(s, "Co") THEN Return("Co")
    ELSE IF Contains(s, "Mn") THEN Return("Mn")
    ELSE IF Contains(s, "Ni") THEN Return("Ni")
    ELSE IF Contains(s, "O") THEN Return("O")
    ELSE Raise("KeyError", "unable to parse symbol from " \o s)

parse_filename_gihyeok(s) ==
    LET sample == parse_filename_gihyeok_sample(s)
        symbol == parse_filename_gihyeok_symbol(s)
    IN  IF sample.exc # "none" THEN sample
        ELSE IF symbol.exc # "none" THEN symbol
        ELSE Return(<<sample.ret, symbol.ret>>)

(***************************************************************************)
(* parse_filename_nslsii (Eli's first batch).                              *)
(***************************************************************************)
parse_filename_nslsii_sample(s) ==
    IF Contains(s, "622") THEN Return("BM_NCM622")
    ELSE IF Contains(s, "NCMA") \/ Contains(s, "NMCA") THEN Return("BM_NCMA")
    ELSE IF Contains(s, "712") \/ Contains(s, "721")
         THEN Return("BM_NCM712-Al")
    ELSE IF Contains(s, "811") THEN Return("BM_NCM811")
    ELSE Raise("KeyError", "unable to parse sample from " \o s)

\* parse_filename_nslsii_cycle raising, as its siblings do, when no cycle
\* marker is present
parse_filename_nslsii_cycle_raising(s) ==
    IF Contains(s, "1st") THEN Return(1)
    ELSE IF Contains(s, "2nd") THEN Return(2)
    ELSE IF Contains(s, "10th") THEN Return(10)
    ELSE Raise("KeyError", "unable to parse cycle from " \o s)

\* files with no cycle value in the filename are assumed to be cycle 1
parse_filename_nslsii_cycle(s) ==
    IF Contains(s, "1st") THEN Return(1)
    ELSE IF Contains(s, "2nd") THEN Return(2)
    ELSE IF Contains(s, "10th") THEN Return(10)
    ELSE Return(1)

\* parse_filename_nslsii_voltage testing the 4.8 V markers before the 4.3 V
parse_filename_nslsii_voltage_48_first(s) ==
    IF Contains(s, "4_8") \/ Contains(s, "48C") THEN Return(<<48, "C">>)
    ELSE IF Contains(s, "4_3") \/ Contains(s, "43C") THEN Return(<<43, "C">>)
    ELSE IF Contains(s, "3V") \/ Contains(s, "3_0") \/ Contains(s, "30DC")
         THEN Return(<<30, "DC">>)
    ELSE Raise("KeyError", "unable to parse voltage from " \o s)

parse_filename_nslsii_voltage(s) ==
    IF Contains(s, "4_3") \/ Contains(s, "43C") THEN Return(<<43, "C">>)
    ELSE IF Contains(s, "4_8") \/ Contains(s, "48C") THEN Return(<<48, "C">>)
    ELSE IF Contains(s, "3V") \/ Contains(s, "3_0") \/ Contains(s, "30DC")
         THEN Return(<<30, "DC">>)
    ELSE Raise("KeyError", "unable to parse voltage from " \o s)

\* parse_filename_nslsii_pristine accepting the capitalised spelling only
parse_filename_nslsii_pristine_one_spelling(s) == Contains(s, "Pristine")

parse_filename_nslsii_pristine(s) ==
    Contains(s, "pristine") \/ Contains(s, "Pristine")

parse_filename_nslsii(s) ==
    LET sample == parse_filename_nslsii_sample(s)
    IN  IF sample.exc # "none" THEN sample
        ELSE IF parse_filename_nslsii_pristine(s)
             THEN Return(<<sample.ret, ChargeDict(<<0, 0, "DC">>)>>)
        ELSE LET cycle == parse_filename_nslsii_cycle(s)
                 vs == parse_filename_nslsii_voltage(s)
             IN  IF cycle.exc # "none" THEN cycle
                 ELSE IF vs.exc # "none" THEN vs
                 ELSE Return(<<sample.ret,
                               ChargeDict(<<cycle.ret, vs.ret[1],
                                            vs.ret[2]>>)>>)

(***************************************************************************)
(* get_experiment_params (Eli's second batch): static table lookup.        *)
(***************************************************************************)
experiment_to_params_map ==
    "1-1" :> [sample |-> "BM_NCMA", charge |-> [cycle |-> 1, voltage |-> 30, state |-> "DC"]] @@
    "1-2" :> [sample |-> "BM_NCMA", charge |-> [cycle |-> 10, voltage |-> 48, state |-> "C"]] @@
    "1-3" :> [sample |-> "BM_NCM712-Al", charge |-> [cycle |-> 1, voltage |-> 30, state |-> "DC"]] @@
    "1-4" :> [sample |-> "BM_NCM712-Al", charge |-> [cycle |-> 10, voltage |-> 30, state |-> "DC"]] @@
    "2-1" :> [sample |-> "BM_NCMA", charge |-> [cycle |-> 2, voltage |-> 48, state |-> "C"]] @@
    "2-2" :> [sample |-> "BM_NCM712-Al", charge |-> [cycle |-> 1, voltage |-> 48, state |-> "C"]] @@
    "2-3" :> [sample |-> "BM_NCM712-Al", charge |-> [cycle |-> 10, voltage |-> 48, state |-> "C"]] @@
    "2-4" :> [sample |-> "BM_NCM811", charge |-> [cycle |-> 1, voltage |-> 30, state |-> "DC"]] @@
    "3-1" :> [sample |-> "BM_NCM712-Al", charge |-> [cycle |-> 0, voltage |-> 0, state |-> "DC"]] @@
    "3-2" :> [sample |-> "BM_NCM712-Al", charge |-> [cycle |-> 2, voltage |-> 48, state |-> "C"]] @@
    "3-3" :> [sample |-> "BM_NCM622", charge |-> [cycle |-> 2, voltage |-> 48, state |-> "C"]] @@
    "3-4" :> [sample |-> "BM_NCM811", charge |-> [cycle |-> 2, voltage |-> 48, state |-> "C"]] @@
    "4-1" :> [sample |-> "BM_NCM811", charge |-> [cycle |-> 2, voltage |-> 43, state |-> "C"]] @@
    "4-2" :> [sample |-> "BM_NCM622", charge |-> [cycle |-> 1, voltage |-> 48, state |-> "C"]] @@
    "4-3" :> [sample |-> "BM_NCM811", charge |-> [cycle |-> 10, voltage |-> 30, state |-> "DC"]] @@
    "4-4" :> [sample |-> "BM_NCMA", charge |-> [cycle |-> 1, voltage |-> 48, state |-> "C"]] @@
    "5-1" :> [sample |-> "BM_NCM712-Al", charge |-> [cycle |-> 1, voltage |-> 43, state |-> "C"]] @@
    "5-2" :> [sample |-> "BM_NCM622", charge |-> [cycle |-> 2, voltage |-> 43, state |-> "C"]] @@
    "5-3" :> [sample |-> "BM_NCM811", charge |-> [cycle |-> 1, voltage |-> 48, state |-> "C"]] @@
    "5-4" :> [sample |-> "BM_NCM622", charge |-> [cycle |-> 10, voltage |-> 30, state |-> "DC"]] @@
    "6-1" :> [sample |-> "BM_NCM622", charge |-> [cycle |-> 1, voltage |-> 30, state |-> "DC"]] @@
    "6-2" :> [sample |-> "BM_NCM712-Al", charge |-> [cycle |-> 2, voltage |-> 48, state |-> "C"]] @@
    "6-3" :> [sample |-> "BM_NCM811", charge |-> [cycle |-> 10, voltage |-> 48, state |-> "C"]] @@
    "6-4" :> [sample |-> "BM_NCMA", charge |-> [cycle |-> 0, voltage |-> 0, state |-> "DC"]] @@
    "7-1" :> [sample |-> "BM_NCMA", charge |-> [cycle |-> 2, voltage |-> 43, state |-> "C"]] @@
    "7-2" :> [sample |-> "BM_NCM622", charge |-> [cycle |-> 1, voltage |-> 43, state |-> "C"]] @@
    "7-3" :> [sample |-> "BM_NCM811", charge |-> [cycle |-> 0, voltage |-> 0, state |-> "DC"]] @@
    "7-4" :> [sample |-> "BM_NCMA", charge |-> [cycle |-> 1, voltage |-> 43, state |-> "C"]] @@
    "8-1" :> [sample |-> "BM_NCM622", charge |-> [cycle |-> 0, voltage |-> 0, state |-> "DC"]] @@
    "8-2" :> [sample |-> "BM_NCM811", charge |-> [cycle |-> 1, voltage |-> 43, state |-> "C"]] @@
    "8-3" :> [sample |-> "BM_NCMA", charge |-> [cycle |-> 10, voltage |-> 48, state |-> "C"]] @@
    "8-4" :> [sample |-> "BM_NCM622", charge |-> [cycle |-> 10, voltage |-> 48, state |-> "C"]]

\* name.split(): the whitespace-separated words of s, in order
IsSpace(c) == c \in {" "}

RECURSIVE SplitFrom(_, _, _)
SplitFrom(s, i, word) ==
    IF i > Len(s)
    THEN IF word = "" THEN <<>> ELSE <<word>>
    ELSE IF IsSpace(Char(s, i))
         THEN IF word = "" THEN SplitFrom(s, i + 1, "")
              ELSE <<word>> \o SplitFrom(s, i + 1, "")
         ELSE SplitFrom(s, i + 1, word \o Char(s, i))

split(s) == SplitFrom(s, 1, "")

\* get_experiment_params looking the key up with a default (dict.get)
get_experiment_params_with_default(s) ==
    LET split_name == split(s)
    IN  IF split_name = <<>>
        THEN Raise("IndexError", "list index out of range")
        ELSE LET experiment_number == split_name[1]
                 experiment_params ==
                     IF experiment_number \in DOMAIN experiment_to_params_map
                     THEN experiment_to_params_map[experiment_number]
                     ELSE experiment_to_params_map["1-1"]
             IN  Return(<<experiment_params.sample,
                          experiment_params.charge>>)

get_experiment_params(s) ==
    LET split_name == split(s)
    IN  IF split_name = <<>>
        THEN Raise("IndexError", "list index out of range")
        ELSE LET experiment_number == split_name[1]
             IN  IF experiment_number \notin DOMAIN experiment_to_params_map
                 THEN Raise("KeyError", experiment_number)
                 ELSE LET experiment_params ==
                              experiment_to_params_map[experiment_number]
                      IN  Return(<<experiment_params.sample,
                                   experiment_params.charge>>)

\* experiment_to_params_map bound once, at module level: every call after
\* the first finds the object the calls before it used
table_of_call_module_level(previous, id) ==
    IF previous = {} THEN [obj |-> id, map |-> experiment_to_params_map]
    ELSE CHOOSE t \in previous : TRUE

\* the assignment experiment_to_params_map = {...} is a statement of the
\* function body: every call binds the name to a dict built anew (the
\* object id), whatever became of the dict of the call before (previous)
table_of_call(previous, id) == [obj |-> id, map |-> experiment_to_params_map]

\* the rest of the body, on the table object t the call has built; the
\* charge it returns is the dict inside t, not a copy
experiment_params_in(t, s) ==
    LET split_name == split(s)
    IN  IF split_name = <<>>
        THEN Raise("IndexError", "list index out of range")
        ELSE LET experiment_number == split_name[1]
             IN  IF experiment_number \notin DOMAIN t
                 THEN Raise("KeyError", experiment_number)
                 ELSE Return(<<t[experiment_number].sample,
                               t[experiment_number].charge>>)

(***************************************************************************)
(* Per-column charge resolution of the wide-format files, as written in    *)
(* the column loops of ingest_aimm_ncm_gihyeok and                         *)
(* ingest_aimm_ncm_gihyeok_oxygen.                                         *)
(***************************************************************************)
column_cycle_gihyeok(column) ==
    IF Contains(column, "1st") THEN Return(1)
    ELSE IF Contains(column, "2nd") THEN Return(2)
    ELSE IF Contains(column, "10th") THEN Return(10)
    ELSE Raise("KeyError", "unable to parse cycle from " \o column)

column_cycle_oxygen(column) ==
    IF Contains(column, "1st") THEN Return(1)
    ELSE IF Contains(column, "2nd") THEN Return(2)
    ELSE IF Contains(column, "10th") THEN Return(10)
    ELSE Raise("KeyError", "unable to parse cycle from " \o column)

column_voltage_gihyeok(column) ==
    IF Contains(column, "3.0") THEN Return(<<30, "DC">>)
    ELSE IF Contains(column, "4.8") THEN Return(<<48, "C">>)
    ELSE Raise("KeyError", "unable to parse voltage from " \o column)

\* column_voltage_oxygen with the 3.0 branch carrying the charged state
column_voltage_oxygen_state_slip(column) ==
    IF Contains(column, "3.0") THEN Return(<<30, "C">>)
    ELSE IF Contains(column, "4.3") THEN Return(<<43, "C">>)
    ELSE IF Contains(column, "4.8") THEN Return(<<48, "C">>)
    ELSE Raise("KeyError", "unable to parse voltage from " \o column)

column_voltage_oxygen(column) ==
    IF Contains(column, "3.0") THEN Return(<<30, "DC">>)
    ELSE IF Contains(column, "4.3") THEN Return(<<43, "C">>)
    ELSE IF Contains(column, "4.8") THEN Return(<<48, "C">>)
    ELSE Raise("KeyError", "unable to parse voltage from " \o column)

column_charge_gihyeok(column) ==
    IF Contains(column, "Pristine")
    THEN Return(ChargeDict(<<0, 0, "DC">>))
    ELSE LET cycle == column_cycle_gihyeok(column)
             vs == column_voltage_gihyeok(column)
         IN  IF cycle.exc # "none" THEN cycle
             ELSE IF vs.exc # "none" THEN vs
             ELSE Return(ChargeDict(<<cycle.ret, vs.ret[1], vs.ret[2]>>))

column_charge_oxygen(column) ==
    IF Contains(column, "Pristine")
    THEN Return(ChargeDict(<<0, 0, "DC">>))
    ELSE LET cycle == column_cycle_oxygen(column)
             vs == column_voltage_oxygen(column)
         IN  IF cycle.exc # "none" THEN cycle
             ELSE IF vs.exc # "none" THEN vs
             ELSE Return(ChargeDict(<<cycle.ret, vs.ret[1], vs.ret[2]>>))

(***************************************************************************)
(* get_sample_charge: scan identifier -> the string handed to              *)
(* parse_filename.  The maps keep the insertion order of the dicts.  The   *)
(* result is a set: empty when the function returns None.                  *)
(***************************************************************************)
file_to_sample_map == <<
    <<"BM_NCM622", <<"Sigscan71987", "Sigscan71991", "Sigscan71996",
        "Sigscan72001", "Sigscan72005", "Sigscan72009",
        "Sigscan71970", "Sigscan71974">>>>,
    <<"BM_NCMA", <<"Sigscan71986", "Sigscan71990", "Sigscan71995",
        "Sigscan71999", "Sigscan72004", "Sigscan72008",
        "Sigscan71969", "Sigscan71973">>>>,
    <<"BM_NCM811", <<>>>>,
    <<"BM_NCM712-Al", <<"Sigscan71983", "Sigscan71988", "Sigscan71993",
        "Sigscan71997", "Sigscan72002", "Sigscan72006",
        "Sigscan72010", "Sigscan71971">>>>,
    <<"BM_NCM712", <<"Sigscan71294", "Sigscan71295", "Sigscan71296",
        "Sigscan71297", "Sigscan71312", "Sigscan71313",
        "Sigscan71314", "Sigscan71315", "Sigscan71985",
        "Sigscan71989", "Sigscan71994", "Sigscan71998",
        "Sigscan72003", "Sigscan72007", "Sigscan71968",
        "Sigscan71972">>>>
>>

file_to_charge_map == <<
    <<"Pristine", <<"Sigscan71294", "Sigscan72001", "Sigscan72002",
        "Sigscan72003", "Sigscan72004">>>>,
    <<"1st_43V", <<"Sigscan71295", "Sigscan72005", "Sigscan72006",
        "Sigscan72007", "Sigscan72008">>>>,
    <<"1st_48V", <<"Sigscan71296", "Sigscan72009", "Sigscan72010",
        "Sigscan71968", "Sigscan71969">>>>,
    <<"1st_3V", <<"Sigscan71297", "Sigscan71970", "Sigscan71971",
        "Sigscan71972", "Sigscan71973">>>>,
    <<"2nd_43V", <<"Sigscan71312", "Sigscan71983", "Sigscan71985",
        "Sigscan71986", "Sigscan71974">>>>,
    <<"2nd_48V", <<"Sigscan71313", "Sigscan71987", "Sigscan71988",
        "Sigscan71989", "Sigscan71990">>>>,
    <<"10th_48V", <<"Sigscan71314", "Sigscan71991", "Sigscan71993",
        "Sigscan71994", "Sigscan71995">>>>,
    <<"10th_3V", <<"Sigscan71315", "Sigscan71996", "Sigscan71997",
        "Sigscan71998", "Sigscan71999">>>>
>>

LowerCase == "abcdefghijklmnopqrstuvwxyz"

UpperCase == "ABCDEFGHIJKLMNOPQRSTUVWXYZ"

ToLower(c) ==
    IF \E k \in 1..26 : Char(UpperCase, k) = c
    THEN Char(LowerCase, CHOOSE k \in 1..26 : Char(UpperCase, k) = c)
    ELSE c

ToUpper(c) ==
    IF \E k \in 1..26 : Char(LowerCase, k) = c
    THEN Char(UpperCase, CHOOSE k \in 1..26 : Char(LowerCase, k) = c)
    ELSE c

RECURSIVE LowerFrom(_, _)
LowerFrom(s, i) ==
    IF i > Len(s) THEN "" ELSE ToLower(Char(s, i)) \o LowerFrom(s, i + 1)

\* str.capitalize(): first character upper case, the rest lower case
capitalize(s) ==
    IF s = "" THEN "" ELSE ToUpper(Char(s, 1)) \o LowerFrom(s, 2)

\* s.split(sep)[0]: the part of s before the first sep (a single character)
SplitHead(s, sep) ==
    IF \E i \in 1..Len(s) : Char(s, i) = sep
    THEN SubSeq(s, 1, (CHOOSE i \in 1..Len(s) :
                          /\ Char(s, i) = sep
                          /\ \A k \in 1..(i - 1) : Char(s, k) # sep) - 1)
    ELSE s

InList(x, list) == \E k \in 1..Len(list) : list[k] = x

\* for key, value in map.items(): if fname in value: found = key; break
FirstKeyListing(map, fname) ==
    LET hits == {k \in 1..Len(map) : InList(fname, map[k][2])}
    IN  IF hits = {} THEN {}
        ELSE {map[CHOOSE k \in hits : \A h \in hits : k <= h][1]}

get_sample_charge(s) ==
    LET fname == capitalize(SplitHead(s, "-"))
        str_sample == FirstKeyListing(file_to_sample_map, fname)
        str_charge == FirstKeyListing(file_to_charge_map, fname)
    IN  IF str_sample # {} /\ str_charge # {}
        THEN {(CHOOSE x \in str_sample : TRUE) \o "_"
                  \o (CHOOSE x \in str_charge : TRUE)}
        ELSE {}

(***************************************************************************)
(* Classifier calls on bounded inputs.  A name is assembled from at most   *)
(* MaxFrags fragments of the vocabulary of one naming convention, then one *)
(* classifier of that convention is called on it.                          *)
(***************************************************************************)
Vocabulary ==
    [wanli |->
        {"622", "NCMA", "712_Al_free", "712", "811",
         "Pristine", "pristine", "1st", "2nd", "10th",
         "43V", "48V", "3V", "V", "1"},
     gihyeok |->
        {"622", "NCMA", "712_Al-doped", "712_Al_free", "712", "811",
         "Co", "Mn", "Ni", "O", "_"},
     nslsii |->
        {"622", "NCMA", "NMCA", "712_Al_free", "712", "721", "811",
         "pristine", "Pristine", "PRISTINE", "1st", "2nd", "10th",
         "4_3", "43C", "4_8", "48C", "3V", "3_0", "30DC"},
     eli |->
        {"1-", "2-", "3-", "4-", "5-", "6-", "7-", "8-", "9-",
         "1", "2", "3", "4", "9", " ", "x"},
     column |->
        {"Pristine", "pristine", "1st", "2nd", "10th",
         "3.0", "4.3", "4.8", "Ni_", "Energy", "_"}]

NoCall == [fn |-> "none"]

Called(f, r) == [fn |-> f, out |-> r]

NoException == [exc |-> "none"]

ClassifyIdle ==
    /\ source = "none"
    /\ name = ""
    /\ nfrags = 0
    /\ result = NoCall

IngestIdle ==
    /\ loop = "none"
    /\ files = <<>>
    /\ idx = 1
    /\ catalog = <<>>
    /\ printed = <<>>
    /\ ops = <<>>
    /\ status = "idle"
    /\ raised = NoException

RepeatIdle ==
    /\ calls = <<>>
    /\ table = {}
    /\ held = <<>>

AlignIdle ==
    /\ run = 0
    /\ spectra = <<>>
    /\ nuid = 0

SimIdle ==
    /\ file_data = <<>>
    /\ structure_id = "unbound"

Init ==
    /\ source \in DOMAIN Vocabulary
    /\ name = ""
    /\ nfrags = 0
    /\ result = NoCall
    /\ IngestIdle
    /\ RepeatIdle
    /\ AlignIdle
    /\ SimIdle

AppendFragment ==
    /\ result = NoCall
    /\ nfrags < MaxFrags
    /\ \E f \in Vocabulary[source] : name' = name \o f
    /\ nfrags' = nfrags + 1
    /\ UNCHANGED <<source, result>>
    /\ UNCHANGED <<ingest_vars, repeat_vars, align_vars, sim_vars>>

\* file names, stems and column headers are never empty
Call(src, f, r) ==
    /\ source = src
    /\ name # ""
    /\ result = NoCall
    /\ result' = Called(f, r)
    /\ UNCHANGED <<source, name, nfrags>>
    /\ UNCHANGED <<ingest_vars, repeat_vars, align_vars, sim_vars>>

Call_parse_filename ==
    Call("wanli", "parse_filename", parse_filename(name))

Call_parse_filename_gihyeok ==
    Call("gihyeok", "parse_filename_gihyeok", parse_filename_gihyeok(name))

Call_parse_filename_nslsii ==
    Call("nslsii", "parse_filename_nslsii", parse_filename_nslsii(name))

Call_get_experiment_params ==
    Call("eli", "get_experiment_params", get_experiment_params(name))

Call_column_charge_gihyeok ==
    Call("column", "column_charge_gihyeok", column_charge_gihyeok(name))

Call_column_charge_oxygen ==
    Call("column", "column_charge_oxygen", column_charge_oxygen(name))

(***************************************************************************)
(* The batch loops.  Reading a file and the catalog client are external:   *)
(* a file is its name and, for the wide-format files, its column headers   *)
(* (df.columns); the catalog is the list of the metadata of its records.   *)
(***************************************************************************)
sample_ids ==
    "BM_NCM622" :> "FVHEqkxTqz8" @@
    "BM_NCM712-Al" :> "SNH7Dg7PR9h" @@
    "BM_NCMA" :> "f6pVatZS3D9" @@
    "BM_NCM811" :> "3pm2g7NXT4R" @@
    "BM_NCM712" :> "4FToXZNyQBr"

\* pathlib: file.stem, the name without its last suffix
stem(fname) ==
    LET dots == {i \in 2..(Len(fname) - 1) : Char(fname, i) = "."}
    IN  IF dots = {} THEN fname
        ELSE SubSeq(fname, 1, (CHOOSE i \in dots : \A k \in dots : i >= k) - 1)

\* c_uid.search(Key("fname") == fname): positions of the matching records
search(cat, fname) == {k \in 1..Len(cat) : cat[k].fname = fname}

\* del c_uid[uid] deleting nothing
delete_nothing(cat, k) == cat

\* del c_uid[uid] for the record at position k
delete(cat, k) == SubSeq(cat, 1, k - 1) \o SubSeq(cat, k + 1, Len(cat))

\* results.values().first()
first(hits) == CHOOSE k \in hits : \A h \in hits : k <= h

write_dataframe(cat, metadata) == Append(cat, metadata)

\* the write_dataframe calls that extended the catalog cat to cat2
WriteOps(cat, cat2) ==
    [k \in 1..(Len(cat2) - Len(cat)) |-> <<"write", cat2[Len(cat) + k].fname>>]

FailedToExtract(fname) == "failed to extract sample from " \o fname

\* except KeyError: print(...); continue
Skip(fname) ==
    /\ printed' = Append(printed, FailedToExtract(fname))
    /\ idx' = idx + 1
    /\ UNCHANGED <<loop, files, catalog, ops, status, raised>>

\* an exception no handler catches leaves the ingest function
Propagate(e, cat) ==
    /\ status' = "raised"
    /\ raised' = e
    /\ catalog' = cat
    /\ ops' = ops \o WriteOps(catalog, cat)
    /\ UNCHANGED <<loop, files, idx, printed>>

Running(l) ==
    /\ loop = l
    /\ status = "running"
    /\ idx <= Len(files)

Step_ingest_aimm_ncm_wanli ==
    /\ Running("ingest_aimm_ncm_wanli")
    /\ LET fname == files[idx].name
           r == parse_filename(fname)
       IN  IF r.exc = "KeyError" THEN Skip(fname)
           ELSE IF r.exc # "none" THEN Propagate(r, catalog)
           ELSE LET metadata == [dataset |-> "nmc",
                                 fname |-> fname,
                                 charge |-> r.ret[2],
                                 facility |-> "ALS",
                                 beamline |-> "8.0.1",
                                 element |-> [symbol |-> "Ni", edge |-> "L3"],
                                 sample_id |-> sample_ids[r.ret[1]]]
                    results == search(catalog, fname)
                IN  /\ IF results # {}
                       THEN /\ catalog' = write_dataframe(
                                   delete(catalog, first(results)), metadata)
                            /\ ops' = ops \o
                                   <<<<"delete",
                                       catalog[first(results)].fname>>,
                                     <<"write", fname>>>>
                            /\ UNCHANGED printed
                       ELSE /\ printed' = Append(printed,
                                   fname \o " is not part of the database")
                            /\ UNCHANGED <<catalog, ops>>
                    /\ idx' = idx + 1
                    /\ UNCHANGED <<loop, files, status, raised>>
    /\ UNCHANGED <<classify_vars, repeat_vars, align_vars, sim_vars>>

Step_ingest_aimm_ncm_eli ==
    /\ Running("ingest_aimm_ncm_eli")
    /\ LET fname == stem(files[idx].name)
           r == get_experiment_params(fname)
       IN  IF r.exc = "KeyError" THEN Skip(fname)
           ELSE IF r.exc # "none" THEN Propagate(r, catalog)
           ELSE LET metadata == [dataset |-> "nmc",
                                 fname |-> fname,
                                 charge |-> r.ret[2],
                                 sample_id |-> sample_ids[r.ret[1]],
                                 beamline |-> "ISS",
                                 sample |-> r.ret[1]]
                IN  /\ catalog' = write_dataframe(catalog, metadata)
                    /\ ops' = Append(ops, <<"write", fname>>)
                    /\ idx' = idx + 1
                    /\ UNCHANGED <<loop, files, printed, status, raised>>
    /\ UNCHANGED <<classify_vars, repeat_vars, align_vars, sim_vars>>

(***************************************************************************)
(* The column loop of a wide-format file: the records written before the   *)
(* loop ends or a column raises.  Yields [exc, cat] (and msg on a raise).  *)
(***************************************************************************)
RECURSIVE ColumnsGihyeok(_, _, _, _)
ColumnsGihyeok(columns, k, metadata, cat) ==
    IF k > Len(columns) THEN [exc |-> "none", cat |-> cat]
    ELSE IF columns[k] = "Energy"
         THEN ColumnsGihyeok(columns, k + 1, metadata, cat)
    ELSE LET c == column_charge_gihyeok(columns[k])
         IN  IF c.exc # "none"
             THEN [exc |-> c.exc, msg |-> c.msg, cat |-> cat]
             ELSE ColumnsGihyeok(columns, k + 1, metadata,
                      write_dataframe(cat,
                          metadata @@ [charge |-> c.ret]))

\* for i in range(0, len(df.columns), 2): column = df.columns[i + 1]
RECURSIVE ColumnsOxygen(_, _, _, _)
ColumnsOxygen(columns, i, metadata, cat) ==
    IF i >= Len(columns) THEN [exc |-> "none", cat |-> cat]
    ELSE IF i + 2 > Len(columns)
         THEN [exc |-> "IndexError",
               msg |-> "index out of bounds", cat |-> cat]
    ELSE LET c == column_charge_oxygen(columns[i + 2])
         IN  IF c.exc # "none"
             THEN [exc |-> c.exc, msg |-> c.msg, cat |-> cat]
             ELSE ColumnsOxygen(columns, i + 2, metadata,
                      write_dataframe(cat,
                          metadata @@ [charge |-> c.ret]))

WideFormatMetadata(fname, r, edge) ==
    [dataset |-> "nmc",
     fname |-> fname,
     facility |-> "ALS",
     beamline |-> "8.0.1",
     element |-> [symbol |-> r.ret[2], edge |-> edge],
     sample_id |-> sample_ids[r.ret[1]]]

\* the column loop is outside the try block: what it raises is not caught
AfterColumns(w) ==
    IF w.exc # "none"
    THEN Propagate([exc |-> w.exc, msg |-> w.msg], w.cat)
    ELSE /\ catalog' = w.cat
         /\ ops' = ops \o WriteOps(catalog, w.cat)
         /\ idx' = idx + 1
         /\ UNCHANGED <<loop, files, printed, status, raised>>

Step_ingest_aimm_ncm_gihyeok ==
    /\ Running("ingest_aimm_ncm_gihyeok")
    /\ LET fname == files[idx].name
           r == parse_filename_gihyeok(fname)
       IN  IF r.exc = "KeyError" THEN Skip(fname)
           ELSE IF r.exc # "none" THEN Propagate(r, catalog)
           ELSE AfterColumns(
                    ColumnsGihyeok(files[idx].columns, 1,
                        WideFormatMetadata(fname, r, "L3"), catalog))
    /\ UNCHANGED <<classify_vars, repeat_vars, align_vars, sim_vars>>

Step_ingest_aimm_ncm_gihyeok_oxygen ==
    /\ Running("ingest_aimm_ncm_gihyeok_oxygen")
    /\ LET fname == files[idx].name
           r == parse_filename_gihyeok(fname)
       IN  IF r.exc = "KeyError" THEN Skip(fname)
           ELSE IF r.exc # "none" THEN Propagate(r, catalog)
           ELSE AfterColumns(
                    ColumnsOxygen(files[idx].columns, 0,
                        WideFormatMetadata(fname, r, "K"), catalog))
    /\ UNCHANGED <<classify_vars, repeat_vars, align_vars, sim_vars>>

Step_ingest_aimm_ncm_gihyeok_sigscan ==
    /\ Running("ingest_aimm_ncm_gihyeok_sigscan")
    /\ LET fname == files[idx].name
           file_params == get_sample_charge(stem(fname))
           \* a membership test in None raises TypeError
           r == IF file_params = {}
                THEN Raise("TypeError",
                           "argument of type 'NoneType' is not iterable")
                ELSE parse_filename(CHOOSE x \in file_params : TRUE)
       IN  IF r.exc = "KeyError" THEN Skip(fname)
           ELSE IF r.exc # "none" THEN Propagate(r, catalog)
           ELSE LET metadata == [dataset |-> "nmc",
                                 fname |-> fname,
                                 charge |-> r.ret[2],
                                 facility |-> "ALS",
                                 beamline |-> "8.0.1",
                                 element |-> [symbol |-> "Co", edge |-> "L3"],
                                 sample_id |-> sample_ids[r.ret[1]]]
                IN  /\ catalog' = write_dataframe(catalog, metadata)
                    /\ ops' = Append(ops, <<"write", fname>>)
                    /\ idx' = idx + 1
                    /\ UNCHANGED <<loop, files, printed, status, raised>>
    /\ UNCHANGED <<classify_vars, repeat_vars, align_vars, sim_vars>>

\* energy offsets are kept in thousandths of an eV
EnergyOffset811(charge) ==
    IF charge.cycle = 1 \/ charge.cycle = 10 THEN [energy_offset |-> 176]
    ELSE IF charge.cycle = 2 THEN [energy_offset |-> -55]
    ELSE [k \in {} |-> 0]

Step_ingest_aimm_ncm_gihyeok_811 ==
    /\ Running("ingest_aimm_ncm_gihyeok_811")
    /\ LET fname == files[idx].name
           r == parse_filename_nslsii(fname)
       IN  IF r.exc = "KeyError" THEN Skip(fname)
           ELSE IF r.exc # "none" THEN Propagate(r, catalog)
           ELSE LET metadata == [dataset |-> "nmc",
                                 fname |-> fname,
                                 charge |-> r.ret[2],
                                 facility |-> "ALS",
                                 beamline |-> "8.0.1",
                                 element |-> [symbol |-> "Ni", edge |-> "L3"],
                                 sample_id |-> sample_ids[r.ret[1]]]
                                @@ EnergyOffset811(r.ret[2])
                IN  /\ catalog' = write_dataframe(catalog, metadata)
                    /\ ops' = Append(ops, <<"write", fname>>)
                    /\ idx' = idx + 1
                    /\ UNCHANGED <<loop, files, printed, status, raised>>
    /\ UNCHANGED <<classify_vars, repeat_vars, align_vars, sim_vars>>

\* the for loop is exhausted and the ingest function returns
Finish ==
    /\ status = "running"
    /\ idx > Len(files)
    /\ status' = "done"
    /\ UNCHANGED <<loop, files, idx, catalog, printed, ops, raised>>
    /\ UNCHANGED <<classify_vars, repeat_vars, align_vars, sim_vars>>

(***************************************************************************)
(* Directory listings: at most MaxFiles distinct files of the directory of *)
(* one contributor.  Every wide-format file has its Energy column(s).      *)
(***************************************************************************)
File(n, cols) == [name |-> n, columns |-> cols]

Directory ==
    [ingest_aimm_ncm_wanli |->
        {File("BM_622_1st_43V_scan.txt", <<>>),
         File("NCMA_Pristine_scan.txt", <<>>),
         File("712_Al_free_10th_3V.txt", <<>>),
         File("readme.txt", <<>>),
         File("811_2nd_scan.txt", <<>>)},
     ingest_aimm_ncm_eli |->
        {File("1-1.txt", <<>>),
         File("8-4 NCM622.txt", <<>>),
         File("9-9.txt", <<>>),
         File("readme.txt", <<>>),
         File(" .txt", <<>>)},
     ingest_aimm_ncm_gihyeok |->
        {File("NCM622_Ni.txt", <<"Energy", "Pristine", "1st_4.8", "1st_3.0">>),
         File("NCMA_Co.txt", <<"Energy", "2nd_4.8">>),
         File("readme.txt", <<"Energy", "1st_3.0">>),
         File("NCM811_Ni.txt", <<"Energy", "1st_3.0", "1st_4.3">>),
         File("NCM712_Mn.txt", <<"Energy", "Pristine", "4.8">>)},
     ingest_aimm_ncm_gihyeok_sigscan |->
        {File("Sigscan71987-0001.txt", <<>>),
         File("sigscan72004.txt", <<>>),
         File("Sigscan71294.txt", <<>>),
         File("Sigscan70000.txt", <<>>),
         File("readme.txt", <<>>)},
     ingest_aimm_ncm_gihyeok_oxygen |->
        {File("NCM622_O.txt", <<"Energy", "Pristine", "Energy.1", "1st_4.3">>),
         File("NCMA_O.txt", <<"Energy", "Ni_2nd_4.8">>),
         File("readme.txt", <<"Energy", "1st_3.0">>),
         File("NCM811_O.txt", <<"Energy", "1st_3.0", "Energy.1", "1st">>),
         File("NCM712_O.txt", <<"Energy", "Pristine", "Energy.1">>)},
     ingest_aimm_ncm_gihyeok_811 |->
        {File("NCM811_1st_4_3.txt", <<>>),
         File("NCM811_pristine.txt", <<>>),
         File("NCM811_2nd_48C.txt", <<>>),
         File("NCM811_10th.txt", <<>>),
         File("readme.txt", <<>>)}]

Listings(dir) ==
    {l \in UNION {[1..n -> dir] : n \in 0..MaxFiles} :
        \A a, b \in 1..Len(l) : a # b => l[a].name # l[b].name}

\* the records the catalog holds before the run: copies[k] records of file
\* l[k], an earlier ingest of the same directory having written one per run
Existing(l, copies) ==
    LET F[k \in 0..Len(l)] ==
            IF k = 0 THEN <<>>
            ELSE F[k - 1] \o [c \in 1..copies[k] |->
                                 [dataset |-> "nmc", fname |-> l[k].name]]
    IN  F[Len(l)]

IngestInit ==
    /\ ClassifyIdle
    /\ RepeatIdle
    /\ AlignIdle
    /\ SimIdle
    /\ loop \in DOMAIN Directory
    /\ files \in Listings(Directory[loop])
    /\ idx = 1
    /\ catalog \in {Existing(files, copies) :
                       copies \in [1..Len(files) -> 0..MaxCopies]}
    /\ printed = <<>>
    /\ ops = <<>>
    /\ status = "running"
    /\ raised = NoException

IngestNext ==
    \/ Step_ingest_aimm_ncm_wanli
    \/ Step_ingest_aimm_ncm_eli
    \/ Step_ingest_aimm_ncm_gihyeok
    \/ Step_ingest_aimm_ncm_gihyeok_sigscan
    \/ Step_ingest_aimm_ncm_gihyeok_oxygen
    \/ Step_ingest_aimm_ncm_gihyeok_811
    \/ Finish

SpecIngest == IngestInit /\ [][IngestNext]_vars

(***************************************************************************)
(* A caller that calls the classifiers again and again, on the same and on *)
(* other names, and changes the records they return.                       *)
(***************************************************************************)
RepeatNames ==
    [parse_filename |-> {"BM_622_1st_43V_scan.txt", "NCMA_Pristine.txt"},
     parse_filename_nslsii |-> {"811_pristine", "NMCA_2nd_4_8"},
     get_experiment_params |-> {"1-1", "3-1 x", "9-9"}]

\* cycle numbers no classifier returns
ModifiedCycles == {5, 7}

RepeatInit ==
    /\ ClassifyIdle
    /\ IngestIdle
    /\ RepeatIdle
    /\ AlignIdle
    /\ SimIdle

\* the caller keeps the charge dict of the result; obj and key name the
\* table object and the entry the dict belongs to, {} when it belongs to
\* no table
Keep(out, obj, key) ==
    IF out.exc = "none"
    THEN {[charge |-> out.ret[2], obj |-> obj, key |-> key]}
    ELSE {}

\* parse_filename and parse_filename_nslsii build their result with
\* dict(zip(keys, charge)): a new dict on every call
Repeat(f, out) ==
    /\ Len(calls) < MaxCalls
    /\ \E n \in RepeatNames[f] :
           /\ calls' = Append(calls, [fn |-> f, arg |-> n, out |-> out[n]])
           /\ held' = Append(held, Keep(out[n], {}, {}))
    /\ UNCHANGED table
    /\ UNCHANGED <<classify_vars, ingest_vars, align_vars, sim_vars>>

Repeat_parse_filename ==
    Repeat("parse_filename",
           [n \in RepeatNames["parse_filename"] |-> parse_filename(n)])

Repeat_parse_filename_nslsii ==
    Repeat("parse_filename_nslsii",
           [n \in RepeatNames["parse_filename_nslsii"] |->
               parse_filename_nslsii(n)])

Repeat_get_experiment_params ==
    /\ Len(calls) < MaxCalls
    /\ \E n \in RepeatNames["get_experiment_params"] :
           LET t == table_of_call(table, Len(calls) + 1)
               out == experiment_params_in(t.map, n)
           IN  /\ calls' = Append(calls, [fn |-> "get_experiment_params",
                                          arg |-> n, out |-> out])
               /\ table' = {t}
               /\ held' = Append(held, Keep(out, {t.obj}, {split(n)[1]}))
    /\ UNCHANGED <<classify_vars, ingest_vars, align_vars, sim_vars>>

\* two references to one dict: the same entry of the same table object
SameDict(a, b) == a.obj # {} /\ a.obj = b.obj /\ a.key = b.key

\* charge["cycle"] = v by the caller, on a dict an earlier call returned;
\* the change shows through every reference to that dict, the one of the
\* table included while the table object is the one the next call uses
ModifyReturned ==
    /\ \E i \in 1..Len(held), v \in ModifiedCycles :
           /\ held[i] # {}
           /\ LET h == CHOOSE x \in held[i] : TRUE
              IN  /\ h.charge.cycle \notin ModifiedCycles
                  /\ held' = [j \in 1..Len(held) |->
                                 IF j = i \/ \E x \in held[j] : SameDict(x, h)
                                 THEN {[x EXCEPT !.charge.cycle = v] :
                                          x \in held[j]}
                                 ELSE held[j]]
                  /\ table' = {IF {t.obj} = h.obj
                               THEN [t EXCEPT
                                       !.map[CHOOSE k \in h.key : TRUE]
                                            .charge.cycle = v]
                               ELSE t : t \in table}
    /\ UNCHANGED calls
    /\ UNCHANGED <<classify_vars, ingest_vars, align_vars, sim_vars>>

RepeatNext ==
    \/ Repeat_parse_filename
    \/ Repeat_parse_filename_nslsii
    \/ Repeat_get_experiment_params
    \/ ModifyReturned

SpecRepeat == RepeatInit /\ [][RepeatNext]_vars

(***************************************************************************)
(* update_alignment_ncm_wanli: for every sample of alignments, every ALS    *)
(* Ni L3 spectrum of the sample without an energy_offset is replaced by a   *)
(* record with its energy axis shifted and the offset noted.  A record is   *)
(* its metadata with its catalog key (uid) and energy, the first value of   *)
(* the energy column of its dataframe; energies and offsets are in          *)
(* thousandths of an eV.                                                    *)
(***************************************************************************)
alignments == <<
    [key |-> "FVHEqkxTqz8", name |-> "BM_NCM622", offset |-> -278],
    [key |-> "SNH7Dg7PR9h", name |-> "BM_NCM712-Al", offset |-> -278],
    [key |-> "f6pVatZS3D9", name |-> "BM_NCMA", offset |-> -278],
    [key |-> "4FToXZNyQBr", name |-> "BM_NCM712", offset |-> -1135]
>>

\* the test of line 1184 always true
needs_alignment_always(metadata) == TRUE

\* if "energy_offset" not in metadata
needs_alignment(metadata) == "energy_offset" \notin DOMAIN metadata

\* c["dataset"]["nmc"]["element"]["Ni"]["edge"]["L3"]["sample"][key]: the
\* positions of the records below that node of the catalog tree
sample_node(cat, key) ==
    {k \in 1..Len(cat) :
        /\ cat[k].dataset = "nmc"
        /\ cat[k].element = [symbol |-> "Ni", edge |-> "L3"]
        /\ cat[k].sample_id = key}

\* ["uid"].search(Key("facility.name") == "ALS"): the keys of the matching
\* records of the node, in catalog order
RECURSIVE search_facility(_, _, _, _)
search_facility(cat, node, facility, k) ==
    IF k > Len(cat) THEN <<>>
    ELSE IF k \in node /\ cat[k].facility = facility
         THEN <<cat[k].uid>> \o search_facility(cat, node, facility, k + 1)
         ELSE search_facility(cat, node, facility, k + 1)

\* the position of the record with catalog key uid
position(cat, uid) == CHOOSE k \in 1..Len(cat) : cat[k].uid = uid

AlignRunning ==
    /\ loop = "update_alignment_ncm_wanli"
    /\ status = "running"

\* the search for alignments[idx]; indexing the tree with the id of a sample
\* no record has either raises KeyError or gives an empty node, as the
\* catalog service decides
Align_search ==
    /\ AlignRunning
    /\ spectra = <<>>
    /\ idx <= Len(alignments)
    /\ LET node == sample_node(catalog, alignments[idx].key)
           found == search_facility(catalog, node, "ALS", 1)
       IN  \/ /\ node = {}
              /\ status' = "raised"
              /\ raised' = Raise("KeyError", alignments[idx].key)
              /\ UNCHANGED <<idx, spectra>>
           \/ /\ spectra' = found
              /\ idx' = IF found = <<>> THEN idx + 1 ELSE idx
              /\ UNCHANGED <<status, raised>>
    /\ UNCHANGED <<loop, files, catalog, printed, ops, run, nuid>>
    /\ UNCHANGED <<classify_vars, repeat_vars, sim_vars>>

\* one iteration of for spectra_key, spectra_value in spectra.items()
Align_spectrum ==
    /\ AlignRunning
    /\ spectra # <<>>
    /\ LET spectra_key == Head(spectra)
           k == position(catalog, spectra_key)
           metadata == catalog[k]
           value == alignments[idx]
       IN  IF needs_alignment(metadata)
           THEN LET new == [uid |-> nuid + 1,
                            energy |-> metadata.energy + value.offset,
                            energy_offset |-> value.offset] @@ metadata
                IN  /\ catalog' = write_dataframe(delete(catalog, k), new)
                    /\ ops' = ops \o << <<"delete", metadata.fname>>,
                                        <<"write", new.fname>> >>
                    /\ nuid' = nuid + 1
                    /\ printed' = Append(printed, "Node updated")
           ELSE /\ printed' = Append(printed,
                       "Skipped: alignment has been updated previously")
                /\ UNCHANGED <<catalog, ops, nuid>>
    /\ spectra' = Tail(spectra)
    /\ idx' = IF Tail(spectra) = <<>> THEN idx + 1 ELSE idx
    /\ UNCHANGED <<loop, files, status, raised, run>>
    /\ UNCHANGED <<classify_vars, repeat_vars, sim_vars>>

\* the loop over alignments is exhausted and the function returns
Align_return ==
    /\ AlignRunning
    /\ spectra = <<>>
    /\ idx > Len(alignments)
    /\ status' = "done"
    /\ UNCHANGED <<loop, files, idx, catalog, printed, ops, raised>>
    /\ UNCHANGED align_vars
    /\ UNCHANGED <<classify_vars, repeat_vars, sim_vars>>

\* update_alignment_ncm_wanli is called again on the same catalog
Align_again ==
    /\ loop = "update_alignment_ncm_wanli"
    /\ status = "done"
    /\ run < MaxRuns
    /\ run' = run + 1
    /\ idx' = 1
    /\ status' = "running"
    /\ UNCHANGED <<loop, files, catalog, printed, ops, raised, spectra, nuid>>
    /\ UNCHANGED <<classify_vars, repeat_vars, sim_vars>>

\* energy of an unaligned spectrum
RawEnergy == 850000

\* the Ni L3 spectra of the nmc dataset a catalog may hold: of an aligned
\* sample, of BM_NCM811, from ALS or from another facility, not yet
\* aligned or aligned by an earlier run
Spectrum(n, sample, facility, offset) ==
    [uid |-> n,
     dataset |-> "nmc",
     fname |-> <<"a.txt", "b.txt", "c.txt">>[n],
     element |-> [symbol |-> "Ni", edge |-> "L3"],
     facility |-> facility,
     sample_id |-> sample_ids[sample],
     energy |-> RawEnergy] @@
    IF offset = {} THEN [x \in {} |-> 0]
    ELSE [energy_offset |-> CHOOSE o \in offset : TRUE]

SpectraOf(n) ==
    {Spectrum(n, a.name, f, {}) : a \in {alignments[1], alignments[4]},
                                  f \in {"ALS", "NSLS-II"}}
    \cup {[Spectrum(n, a.name, "ALS", {a.offset})
              EXCEPT !.energy = RawEnergy + a.offset] :
              a \in {alignments[1], alignments[4]}}
    \cup {Spectrum(n, "BM_NCM811", "ALS", {})}

AlignInit ==
    /\ ClassifyIdle
    /\ RepeatIdle
    /\ SimIdle
    /\ loop = "update_alignment_ncm_wanli"
    /\ files = <<>>
    /\ idx = 1
    /\ \E n \in 0..MaxSpectra :
           /\ catalog \in {c \in [1..n -> UNION {SpectraOf(k) : k \in 1..n}] :
                               \A k \in 1..n : c[k].uid = k}
           /\ nuid = n
    /\ printed = <<>>
    /\ ops = <<>>
    /\ status = "running"
    /\ raised = NoException
    /\ run = 1
    /\ spectra = <<>>

AlignNext ==
    \/ Align_search
    \/ Align_spectrum
    \/ Align_return
    \/ Align_again

SpecAlign == AlignInit /\ [][AlignNext]_vars

(***************************************************************************)
(* ingest_aimm_ncm_sim and ingest_aimm_ncm_sim_xanes: for every entry of   *)
(* the file, the structure of the entry is searched in the structure       *)
(* collection and the spectra of the entry are written with its key.  An  *)
(* entry is [structure_index, spectra], spectra being how many it has.     *)
(***************************************************************************)
\* c["dataset"]["nmc_sim_structure"]["uid"].search(Key("structure_index")
\* == index): positions of the matching structure records
search_structure(cat, index) ==
    {k \in 1..Len(cat) :
        /\ cat[k].dataset = "nmc_sim_structure"
        /\ cat[k].structure_index = index}

\* what .keys().first() gives when the search found nothing, as the
\* catalog service decides: the KeyError the handler is written for,
\* another exception, or None
SearchMisses == {"KeyError", "IndexError", "None"}

\* the records of for j in range(len(file_data[i]["spectra"]))
SimSpectra(fname, i, n, sid) ==
    [j \in 1..n |->
        [dataset |-> "nmc_sim",
         fname |-> fname,
         facility |-> "CNM",
         beamline |-> "Simulation",
         spectra_path |-> [id |-> i, spectra_id |-> j - 1],
         structure_id |-> sid]]

\* the body of for i in range(len(file_data)) from the end of the try
\* statement on, sid being the value of structure_id there
SimWrite(fname, sid, said) ==
    IF sid = "unbound"
    THEN /\ status' = "raised"
         /\ raised' = Raise("UnboundLocalError", "structure_id")
         /\ printed' = printed \o said
         /\ UNCHANGED <<idx, catalog, ops, structure_id>>
    ELSE /\ structure_id' = sid
         /\ idx' = idx + 1
         /\ UNCHANGED <<status, raised>>
         /\ IF sid # "None"
            THEN LET new == SimSpectra(fname, idx - 1,
                                       file_data[idx].spectra, sid)
                 IN  /\ catalog' = catalog \o new
                     /\ ops' = ops \o WriteOps(catalog, catalog \o new)
                     /\ printed' = printed \o said
            ELSE /\ printed' = printed \o said \o <<"None structure">>
                 /\ UNCHANGED <<catalog, ops>>

\* the try statement and what follows it, for entry idx
SimEntry(fname) ==
    LET hits == search_structure(catalog, file_data[idx].structure_index)
    IN  IF hits # {}
        THEN SimWrite(fname, catalog[first(hits)].uid, <<>>)
        ELSE \E miss \in SearchMisses :
                 IF miss = "KeyError"
                 THEN \* except KeyError: print(...); structure_id stays
                      SimWrite(fname, structure_id,
                          <<"failed to extract structure from id">>)
                 ELSE IF miss = "None"
                 THEN SimWrite(fname, "None", <<>>)
                 ELSE /\ status' = "raised"
                      /\ raised' = Raise(miss, "index out of range")
                      /\ UNCHANGED <<idx, catalog, printed, ops,
                                     structure_id>>

SimRunning(l) ==
    /\ loop = l
    /\ status = "running"
    /\ idx <= Len(file_data)

Step_ingest_aimm_ncm_sim ==
    /\ SimRunning("ingest_aimm_ncm_sim")
    /\ IF file_data[idx].spectra > 0
       THEN SimEntry("nmc_feff_xas_v3_structure.json")
       ELSE /\ idx' = idx + 1
            /\ UNCHANGED <<catalog, printed, ops, status, raised,
                           structure_id>>
    /\ UNCHANGED <<loop, files, file_data, run, spectra, nuid>>
    /\ UNCHANGED <<classify_vars, repeat_vars>>

Step_ingest_aimm_ncm_sim_xanes ==
    /\ SimRunning("ingest_aimm_ncm_sim_xanes")
    /\ SimEntry("HJ_NMC_XANES.json")
    /\ UNCHANGED <<loop, files, file_data, run, spectra, nuid>>
    /\ UNCHANGED <<classify_vars, repeat_vars>>

\* the loop over file_data is exhausted and the function returns
Sim_return ==
    /\ loop \in {"ingest_aimm_ncm_sim", "ingest_aimm_ncm_sim_xanes"}
    /\ status = "running"
    /\ idx > Len(file_data)
    /\ status' = "done"
    /\ UNCHANGED <<loop, files, idx, catalog, printed, ops, raised>>
    /\ UNCHANGED <<classify_vars, repeat_vars, align_vars, sim_vars>>

StructureIndices == {"mp-1", "mp-2"}

\* the record ingest_aimm_structures wrote for a structure
Structure(index) ==
    [dataset |-> "nmc_sim_structure",
     structure_index |-> index,
     uid |-> "uid-of-" \o index]

\* the structure collection: the structures of a subset of the indices
Structures(known) ==
    LET all == <<"mp-1", "mp-2">>
        F[k \in 0..Len(all)] ==
            IF k = 0 THEN <<>>
            ELSE IF all[k] \in known THEN Append(F[k - 1], Structure(all[k]))
                 ELSE F[k - 1]
    IN  F[Len(all)]

Entries ==
    {[structure_index |-> x, spectra |-> n] :
        x \in StructureIndices, n \in 0..2}

SimInit ==
    /\ ClassifyIdle
    /\ RepeatIdle
    /\ AlignIdle
    /\ loop \in {"ingest_aimm_ncm_sim", "ingest_aimm_ncm_sim_xanes"}
    /\ files = <<>>
    /\ file_data \in UNION {[1..n -> Entries] : n \in 0..MaxEntries}
    /\ idx = 1
    /\ catalog \in {Structures(known) : known \in SUBSET StructureIndices}
    /\ printed = <<>>
    /\ ops = <<>>
    /\ status = "running"
    /\ raised = NoException
    /\ structure_id = "unbound"

SimNext ==
    \/ Step_ingest_aimm_ncm_sim
    \/ Step_ingest_aimm_ncm_sim_xanes
    \/ Sim_return

SpecSim == SimInit /\ [][SimNext]_vars

Next ==
    \/ AppendFragment
    \/ Call_parse_filename
    \/ Call_parse_filename_gihyeok
    \/ Call_parse_filename_nslsii
    \/ Call_get_experiment_params
    \/ Call_column_charge_gihyeok
    \/ Call_column_charge_oxygen

Spec == Init /\ [][Next]_vars

(***************************************************************************)
(* Properties.                                                             *)
(***************************************************************************)
SampleTags ==
    {"BM_NCM622", "BM_NCMA", "BM_NCM712", "BM_NCM712-Al", "BM_NCM811"}

ElementSymbols == {"Co", "Mn", "Ni", "O"}

By(f) == result.fn = f

Returned == result.fn # "none" /\ result.out.exc = "none"

RaisedKeyError(m) ==
    /\ result.out.exc = "KeyError"
    /\ result.out.msg = m

\* the name under which the running loop reports and records file k
ReportedName(k) ==
    IF loop = "ingest_aimm_ncm_eli" THEN stem(files[k].name)
    ELSE files[k].name

\* file k was skipped with a diagnostic, or looked up, or written
Handled(k) ==
    \/ InList(FailedToExtract(ReportedName(k)), printed)
    \/ InList(ReportedName(k) \o " is not part of the database", printed)
    \/ \E j \in 1..Len(catalog) :
          /\ catalog[j].fname = ReportedName(k)
          /\ "sample_id" \in DOMAIN catalog[j]

\* C1: in every file-ingest loop a classification failure on one file never
\* aborts the batch: no exception leaves the loop, and when the loop is done
\* every file of the listing was either skipped with a diagnostic or
\* processed.
C1_FailureNeverAbortsBatch ==
    /\ status # "raised"
    /\ status = "done" => \A k \in 1..Len(files) : Handled(k)

\* C2: whatever the input, parse_filename, parse_filename_gihyeok,
\* parse_filename_nslsii and get_experiment_params either return a complete
\* record or raise KeyError, the exception the batch loops catch; no other
\* exception type leaves them.
C2_UnmatchedEndsInKeyError ==
    result.fn \in {"parse_filename", "parse_filename_gihyeok",
                   "parse_filename_nslsii", "get_experiment_params"}
    => /\ result.out.exc \in {"none", "KeyError"}
       /\ result.out.exc = "none" =>
             /\ result.out.ret[1] \in SampleTags
             /\ IF By("parse_filename_gihyeok")
                THEN result.out.ret[2] \in ElementSymbols
                ELSE DOMAIN result.out.ret[2] = {"cycle", "voltage", "state"}

\* the sample, charge and element parts of what the last call returned
RetSample == result.out.ret[1]

RetCharge ==
    IF By("column_charge_gihyeok") \/ By("column_charge_oxygen")
    THEN result.out.ret
    ELSE result.out.ret[2]

Charge(c, v, st) == [cycle |-> c, voltage |-> v, state |-> st]

PristineCharge == Charge(0, 0, "DC")

ContainsAny(s, tokens) == \E t \in tokens : Contains(s, t)

WanliTokens == {"622", "NCMA", "712_Al_free", "712", "811"}

NslsiiTokens == {"622", "NCMA", "NMCA", "712", "721", "811"}

GihyeokTokens == {"622", "NCMA", "712_Al-doped", "712", "811"}

CycleMarkers == {"1st", "2nd", "10th"}

\* C3 as stated: an input holding both 712_Al_free and 712 resolves to
\* BM_NCM712 in parse_filename and in parse_filename_nslsii.
C3_SpecificAlwaysWins ==
    (/\ By("parse_filename") \/ By("parse_filename_nslsii")
     /\ Contains(name, "712_Al_free")
     /\ Contains(name, "712")
     /\ Returned)
    => RetSample = "BM_NCM712"

\* C3: in parse_filename an input holding 712_Al_free (and so 712) and
\* neither of the earlier tokens 622 and NCMA resolves to BM_NCM712, never to
\* BM_NCM712-Al; parse_filename_nslsii has no 712_Al_free token and resolves
\* such an input (without 622, NCMA, NMCA) to BM_NCM712-Al.
C3_SpecificBeforeGeneral ==
    /\ (/\ By("parse_filename")
        /\ Contains(name, "712_Al_free")
        /\ ~ContainsAny(name, {"622", "NCMA"})
        /\ Returned)
       => RetSample = "BM_NCM712"
    /\ (/\ By("parse_filename_nslsii")
        /\ Contains(name, "712_Al_free")
        /\ ~ContainsAny(name, {"622", "NCMA", "NMCA"})
        /\ Returned)
       => RetSample = "BM_NCM712-Al"

C3_Witness ==
    /\ By("parse_filename")
    /\ Contains(name, "712_Al_free")
    /\ Contains(name, "2nd")
    /\ Returned
    /\ RetSample = "BM_NCM712"

\* the token orders and tags, as the claims list them
WanliOrder ==
    <<<<"622", "BM_NCM622">>, <<"NCMA", "BM_NCMA">>,
      <<"712_Al_free", "BM_NCM712">>, <<"712", "BM_NCM712-Al">>,
      <<"811", "BM_NCM811">>>>

GihyeokOrder ==
    <<<<"622", "BM_NCM622">>, <<"NCMA", "BM_NCMA">>,
      <<"712_Al-doped", "BM_NCM712-Al">>, <<"712", "BM_NCM712">>,
      <<"811", "BM_NCM811">>>>

\* positions of the tokens of order that s holds with no earlier one
FirstMatches(order, s) ==
    {k \in 1..Len(order) :
        /\ Contains(s, order[k][1])
        /\ \A j \in 1..(k - 1) : ~Contains(s, order[j][1])}

FirstMatchWins(order) ==
    IF FirstMatches(order, name) = {}
    THEN RaisedKeyError("unable to parse sample from " \o name)
    ELSE Returned =>
            \A k \in FirstMatches(order, name) : RetSample = order[k][2]

\* C4 as stated: in parse_filename and parse_filename_gihyeok a string
\* holding a token of the list 622, NCMA, 712_Al_free, 712, 811 (and, for
\* 712, not 712_Al_free) yields that token's tag; a string holding none of
\* them fails with the KeyError naming the input.
C4_EveryTokenYieldsItsTag ==
    (By("parse_filename") \/ By("parse_filename_gihyeok"))
    => /\ \A k \in 1..Len(WanliOrder) :
             (/\ Contains(name, WanliOrder[k][1])
              /\ WanliOrder[k][1] = "712" => ~Contains(name, "712_Al_free")
              /\ Returned)
             => RetSample = WanliOrder[k][2]
       /\ ~ContainsAny(name, WanliTokens)
             => RaisedKeyError("unable to parse sample from " \o name)

\* C4: sample resolution is first-match-wins over a fixed token order: in
\* parse_filename the first token of 622, NCMA, 712_Al_free, 712, 811 that the
\* string holds decides the tag (BM_NCM622, BM_NCMA, BM_NCM712, BM_NCM712-Al,
\* BM_NCM811); in parse_filename_gihyeok the order is 622, NCMA, 712_Al-doped,
\* 712, 811 with the tags BM_NCM622, BM_NCMA, BM_NCM712-Al, BM_NCM712,
\* BM_NCM811; a string holding none of the tokens fails with the KeyError
\* naming the input.
C4_FirstMatchWins ==
    /\ By("parse_filename") => FirstMatchWins(WanliOrder)
    /\ By("parse_filename_gihyeok") => FirstMatchWins(GihyeokOrder)

C4_Witness ==
    /\ By("parse_filename_gihyeok")
    /\ Contains(name, "811")
    /\ Contains(name, "712")
    /\ ~Contains(name, "712_Al-doped")
    /\ Returned
    /\ RetSample = "BM_NCM712"

\* C5 as stated: any input holding a pristine marker yields the pristine
\* charge, in parse_filename and parse_filename_nslsii.
C5_PristineAlwaysYields ==
    (\/ By("parse_filename") /\ Contains(name, "Pristine")
     \/ By("parse_filename_nslsii")
           /\ ContainsAny(name, {"pristine", "Pristine"}))
    => Returned /\ RetCharge = PristineCharge

\* the end-to-end scenario of the pristine override
ScenarioPristine ==
    parse_filename("NCMA_Pristine_scan.txt")
       = Return(<<"BM_NCMA", PristineCharge>>)

\* C5: any input with a recognised sample token that holds a pristine marker
\* (Pristine for parse_filename; pristine or Pristine for
\* parse_filename_nslsii) yields the charge {cycle 0, voltage 0.0, state DC},
\* whatever cycle or voltage markers it also holds.
C5_PristineOverride ==
    /\ (/\ By("parse_filename")
        /\ Contains(name, "Pristine")
        /\ ContainsAny(name, WanliTokens))
       => Returned /\ RetCharge = PristineCharge
    /\ (/\ By("parse_filename_nslsii")
        /\ ContainsAny(name, {"pristine", "Pristine"})
        /\ ContainsAny(name, NslsiiTokens))
       => Returned /\ RetCharge = PristineCharge
    /\ ScenarioPristine

C5_Witness ==
    /\ By("parse_filename")
    /\ Contains(name, "Pristine")
    /\ ContainsAny(name, {"43V", "48V"})
    /\ Returned
    /\ RetCharge = PristineCharge

\* the first V of s together with the digits right before it
FirstVoltageString(s) ==
    LET p == CHOOSE i \in 1..Len(s) :
                 /\ Char(s, i) = "V"
                 /\ \A k \in 1..(i - 1) : Char(s, k) # "V"
        q == CHOOSE i \in 1..p :
                 /\ \A k \in i..(p - 1) : IsDigit(Char(s, k))
                 /\ i > 1 => ~IsDigit(Char(s, i - 1))
    IN  SubSeq(s, q, p)

VoltageYields(v, st) ==
    /\ Returned
    /\ RetCharge.voltage = v
    /\ RetCharge.state = st

WanliVoltageCase ==
    /\ By("parse_filename")
    /\ ~Contains(name, "Pristine")
    /\ ContainsAny(name, WanliTokens)
    /\ ContainsAny(name, CycleMarkers)

\* C6 as stated: a non-pristine input with a sample token and a cycle marker
\* yields 4.3 C when it holds 43V, 4.8 C when it holds 48V and 3.0 DC when it
\* holds 3V.
C6_MarkerAnywhereYields ==
    WanliVoltageCase
    => /\ Contains(name, "43V") => VoltageYields(43, "C")
       /\ Contains(name, "48V") => VoltageYields(48, "C")
       /\ Contains(name, "3V") => VoltageYields(30, "DC")

\* the end-to-end scenario of a charged sample
ScenarioFirstCycle43V ==
    parse_filename("BM_622_1st_43V_scan.txt")
       = Return(<<"BM_NCM622", Charge(1, 43, "C")>>)

\* C6: in parse_filename, for a non-pristine input with a sample token and a
\* cycle marker, the voltage string is the first V of the input together with
\* the digits right before it; when it is exactly 43V the charge has 4.3 C,
\* when 48V 4.8 C, when 3V 3.0 DC; BM_622_1st_43V_scan.txt yields
\* (BM_NCM622, {cycle 1, voltage 4.3, state C}).
C6_VoltageFromFirstV ==
    /\ (WanliVoltageCase /\ Contains(name, "V"))
       => /\ FirstVoltageString(name) = "43V" => VoltageYields(43, "C")
          /\ FirstVoltageString(name) = "48V" => VoltageYields(48, "C")
          /\ FirstVoltageString(name) = "3V" => VoltageYields(30, "DC")
    /\ ScenarioFirstCycle43V

C6_Witness ==
    /\ WanliVoltageCase
    /\ Contains(name, "V")
    /\ FirstVoltageString(name) = "48V"
    /\ VoltageYields(48, "C")

FirstCycleMarker(s) ==
    IF Contains(s, "1st") THEN 1
    ELSE IF Contains(s, "2nd") THEN 2
    ELSE 10

\* fails when no cycle marker is present
StrictCycle ==
    IF ContainsAny(name, CycleMarkers)
    THEN Returned => RetCharge.cycle = FirstCycleMarker(name)
    ELSE result.out.exc = "KeyError"

\* C7: for a non-pristine input the markers 1st, 2nd, 10th, tested in that
\* order, resolve the cycle to 1, 2, 10; with no marker parse_filename and
\* the per-column resolvers fail with KeyError (unable to parse cycle) while
\* parse_filename_nslsii, and only it, takes cycle 1 and goes on.
C7_CycleResolution ==
    /\ (By("parse_filename") /\ ~Contains(name, "Pristine"))
       => /\ StrictCycle
          /\ (/\ ContainsAny(name, WanliTokens)
              /\ ~ContainsAny(name, CycleMarkers))
             => RaisedKeyError("unable to parse cycle from " \o name)
    /\ ((By("column_charge_gihyeok") \/ By("column_charge_oxygen"))
         /\ ~Contains(name, "Pristine"))
       => /\ StrictCycle
          /\ ~ContainsAny(name, CycleMarkers)
             => RaisedKeyError("unable to parse cycle from " \o name)
    /\ (By("parse_filename_nslsii")
         /\ ~ContainsAny(name, {"pristine", "Pristine"}))
       => /\ Returned =>
                RetCharge.cycle = IF ContainsAny(name, CycleMarkers)
                                  THEN FirstCycleMarker(name)
                                  ELSE 1
          /\ (/\ ContainsAny(name, NslsiiTokens)
              /\ ContainsAny(name, {"4_3", "43C", "4_8", "48C",
                                    "3V", "3_0", "30DC"}))
             => Returned

C7_Witness ==
    /\ By("parse_filename_nslsii")
    /\ ~ContainsAny(name, {"pristine", "Pristine"})
    /\ ~ContainsAny(name, CycleMarkers)
    /\ Returned
    /\ RetCharge.cycle = 1

\* the first whitespace-separated word of s, for s with a non-blank character
FirstWord(s) ==
    LET a == CHOOSE i \in 1..Len(s) :
                 /\ Char(s, i) # " "
                 /\ \A k \in 1..(i - 1) : Char(s, k) = " "
        b == CHOOSE i \in a..Len(s) :
                 /\ \A k \in a..i : Char(s, k) # " "
                 /\ i < Len(s) => Char(s, i + 1) = " "
    IN  SubSeq(s, a, b)

GroupDigits == {"1", "2", "3", "4", "5", "6", "7", "8"}

IndexDigits == {"1", "2", "3", "4"}

TableKeys == {g \o "-" \o i : g \in GroupDigits, i \in IndexDigits}

\* every key of the table looks itself up; the two keys the claim names
LookupOfEveryTableKey ==
    /\ \A k \in DOMAIN experiment_to_params_map :
          get_experiment_params(k)
             = Return(<<experiment_to_params_map[k].sample,
                        experiment_to_params_map[k].charge>>)
    /\ get_experiment_params("1-1")
          = Return(<<"BM_NCMA", Charge(1, 30, "DC")>>)
    /\ get_experiment_params("9-9") = Raise("KeyError", "9-9")

TableSize == Cardinality(DOMAIN experiment_to_params_map)

LookupIsTotalOnTable ==
    /\ LookupOfEveryTableKey
    /\ (By("get_experiment_params") /\ \E i \in 1..Len(name) : Char(name, i) # " ")
       => IF FirstWord(name) \in TableKeys
          THEN /\ Returned
               /\ RetSample = experiment_to_params_map[FirstWord(name)].sample
               /\ RetCharge = experiment_to_params_map[FirstWord(name)].charge
          ELSE RaisedKeyError(FirstWord(name))

\* C8 as stated: the static table has exactly 40 keys, and the lookup
\* succeeds on each and fails with KeyError on every other key.
C8_FortyKeys ==
    /\ TableSize = 40
    /\ LookupIsTotalOnTable

\* C8: the static table has exactly 32 keys, g-i for g in 1..8 and i in 1..4;
\* the lookup succeeds for every one of them, returning that key's sample tag
\* and charge, and fails with KeyError for every key outside the table; 1-1
\* yields (BM_NCMA, {cycle 1, voltage 3.0, state DC}) and 9-9 fails.
C8_ThirtyTwoKeys ==
    /\ TableSize = 32
    /\ DOMAIN experiment_to_params_map = TableKeys
    /\ LookupIsTotalOnTable

C8_Witness ==
    /\ By("get_experiment_params")
    /\ Contains(name, "8-4")
    /\ Contains(name, " ")
    /\ FirstWord(name) = "8-4"
    /\ Returned
    /\ RetSample = "BM_NCM622"

\* C9: in parse_filename_nslsii, for a non-pristine input with a recognised
\* sample token, voltage and state come together from the first matching
\* marker group in the order 4.3 V (4_3 or 43C: 4.3, C), 4.8 V (4_8 or 48C:
\* 4.8, C), 3.0 V (3V, 3_0 or 30DC: 3.0, DC); an input with none of the
\* markers fails with KeyError (unable to parse voltage).
C9_NslsiiVoltage ==
    (/\ By("parse_filename_nslsii")
     /\ ~ContainsAny(name, {"pristine", "Pristine"})
     /\ ContainsAny(name, NslsiiTokens))
    => IF ContainsAny(name, {"4_3", "43C"}) THEN VoltageYields(43, "C")
       ELSE IF ContainsAny(name, {"4_8", "48C"}) THEN VoltageYields(48, "C")
       ELSE IF ContainsAny(name, {"3V", "3_0", "30DC"})
            THEN VoltageYields(30, "DC")
       ELSE RaisedKeyError("unable to parse voltage from " \o name)

C9_Witness ==
    /\ By("parse_filename_nslsii")
    /\ ContainsAny(name, {"4_8", "48C"})
    /\ ContainsAny(name, {"4_3", "43C"})
    /\ Returned
    /\ RetCharge.voltage = 43

\* C10: in parse_filename_gihyeok, for an input with a recognised sample
\* token, the element symbol is the first of Co, Mn, Ni, O that occurs in the
\* input; an input holding none of them fails with KeyError (unable to parse
\* symbol).
C10_ElementPriority ==
    (By("parse_filename_gihyeok") /\ ContainsAny(name, GihyeokTokens))
    => IF Contains(name, "Co") THEN Returned /\ result.out.ret[2] = "Co"
       ELSE IF Contains(name, "Mn") THEN Returned /\ result.out.ret[2] = "Mn"
       ELSE IF Contains(name, "Ni") THEN Returned /\ result.out.ret[2] = "Ni"
       ELSE IF Contains(name, "O") THEN Returned /\ result.out.ret[2] = "O"
       ELSE RaisedKeyError("unable to parse symbol from " \o name)

C10_Witness ==
    /\ By("parse_filename_gihyeok")
    /\ Contains(name, "Ni")
    /\ Contains(name, "Co")
    /\ Returned
    /\ result.out.ret[2] = "Co"

ColumnResolverCase ==
    /\ By("column_charge_gihyeok") \/ By("column_charge_oxygen")
    /\ ~Contains(name, "Pristine")
    /\ ContainsAny(name, CycleMarkers)

\* the header holds the voltage marker m and no other of the three
OnlyVoltageMarker(m) ==
    /\ Contains(name, m)
    /\ ~ContainsAny(name, {"3.0", "4.3", "4.8"} \ {m})

\* C11: in both wide-format ingests a column header resolves with the
\* pristine/cycle logic of a filename and the decimal-dotted voltage markers
\* 3.0 (3.0, DC), 4.3 (4.3, C), 4.8 (4.8, C); Ni_2nd_4.8 yields
\* {cycle 2, voltage 4.8, state C}; a header with no cycle or no voltage
\* marker raises KeyError.
C11_ColumnChargeResolution ==
    /\ ((By("column_charge_gihyeok") \/ By("column_charge_oxygen"))
         /\ Contains(name, "Pristine"))
       => Returned /\ RetCharge = PristineCharge
    /\ ColumnResolverCase
       => /\ OnlyVoltageMarker("3.0") => VoltageYields(30, "DC")
          /\ OnlyVoltageMarker("4.3") => VoltageYields(43, "C")
          /\ OnlyVoltageMarker("4.8") => VoltageYields(48, "C")
          /\ Returned => RetCharge.cycle = FirstCycleMarker(name)
          /\ ~ContainsAny(name, {"3.0", "4.3", "4.8"})
             => result.out.exc = "KeyError"
    /\ ((By("column_charge_gihyeok") \/ By("column_charge_oxygen"))
         /\ ~Contains(name, "Pristine")
         /\ ~ContainsAny(name, CycleMarkers))
       => result.out.exc = "KeyError"
    /\ column_charge_gihyeok("Ni_2nd_4.8") = Return(Charge(2, 48, "C"))
    /\ column_charge_oxygen("Ni_2nd_4.8") = Return(Charge(2, 48, "C"))

ReturnsSampleAndCharge ==
    \/ By("parse_filename")
    \/ By("parse_filename_nslsii")
    \/ By("get_experiment_params")

ReturnsCharge ==
    \/ ReturnsSampleAndCharge
    \/ By("column_charge_gihyeok")
    \/ By("column_charge_oxygen")

\* C13: every successful charge classification returns exactly one sample
\* tag of the closed set (the per-column resolvers return the charge alone)
\* and a charge record with the three fields cycle, voltage and state, never
\* a record with only some of them.
C13_CompleteRecord ==
    /\ (ReturnsSampleAndCharge /\ Returned)
       => /\ Len(result.out.ret) = 2
          /\ RetSample \in SampleTags
    /\ (ReturnsCharge /\ Returned)
       => DOMAIN RetCharge = {"cycle", "voltage", "state"}

C13_Witness ==
    /\ By("parse_filename_nslsii")
    /\ Returned
    /\ RetSample = "BM_NCM811"
    /\ RetCharge.cycle = 10

\* C14 as stated: parse_filename_nslsii matches the pristine marker in any
\* letter casing.
C14_AnyCasing ==
    (/\ By("parse_filename_nslsii")
     /\ ContainsAny(name, NslsiiTokens)
     /\ ContainsAny(name, {"pristine", "Pristine", "PRISTINE"}))
    => Returned /\ RetCharge = PristineCharge

\* C14: parse_filename_nslsii accepts two spellings of the pristine marker,
\* pristine and Pristine: an input with a recognised sample token that holds
\* either yields the charge {cycle 0, voltage 0.0, state DC}; any other
\* casing (PRISTINE) is not a pristine marker and the input is resolved from
\* its cycle and voltage markers.
C14_TwoSpellings ==
    /\ (/\ By("parse_filename_nslsii")
        /\ ContainsAny(name, NslsiiTokens)
        /\ ContainsAny(name, {"pristine", "Pristine"}))
       => Returned /\ RetCharge = PristineCharge
    /\ (/\ By("parse_filename_nslsii")
        /\ Contains(name, "PRISTINE")
        /\ ~ContainsAny(name, {"pristine", "Pristine"})
        /\ Returned)
       => RetCharge # PristineCharge

C14_Witness ==
    /\ By("parse_filename_nslsii")
    /\ Contains(name, "pristine")
    /\ ~Contains(name, "Pristine")
    /\ Returned
    /\ RetCharge = PristineCharge

ConsistentCharge(c) ==
    /\ c.cycle \in {0, 1, 2, 10}
    /\ c.voltage \in {0, 30, 43, 48}
    /\ c.state = "DC" <=> c.voltage \in {0, 30}
    /\ c.state = "C" <=> c.voltage \in {43, 48}
    /\ c.cycle = 0 <=> c.voltage = 0

TableIsConsistent ==
    \A k \in DOMAIN experiment_to_params_map :
        ConsistentCharge(experiment_to_params_map[k].charge)

\* C19: every charge record a classifier, a per-column resolver or an entry
\* of the experiment table produces is consistent: cycle in {0, 1, 2, 10},
\* voltage in {0.0, 3.0, 4.3, 4.8}, state DC exactly for 0.0 and 3.0 and C
\* exactly for 4.3 and 4.8, cycle 0 exactly for voltage 0.0.
C19_ConsistentCharge ==
    /\ TableIsConsistent
    /\ (ReturnsCharge /\ Returned) => ConsistentCharge(RetCharge)

C19_Witness ==
    /\ By("column_charge_oxygen")
    /\ Returned
    /\ RetCharge = Charge(10, 30, "DC")

\* the charge a key of file_to_charge_map encodes
ChargeOfKey ==
    "Pristine" :> Charge(0, 0, "DC") @@
    "1st_43V" :> Charge(1, 43, "C") @@
    "1st_48V" :> Charge(1, 48, "C") @@
    "1st_3V" :> Charge(1, 30, "DC") @@
    "2nd_43V" :> Charge(2, 43, "C") @@
    "2nd_48V" :> Charge(2, 48, "C") @@
    "10th_48V" :> Charge(10, 48, "C") @@
    "10th_3V" :> Charge(10, 30, "DC")

\* the record the sigscan loop wrote at position k of the catalog
SigscanWritten(k) ==
    /\ loop = "ingest_aimm_ncm_gihyeok_sigscan"
    /\ k \in 1..Len(catalog)
    /\ "sample_id" \in DOMAIN catalog[k]

ScanOf(rec) == capitalize(SplitHead(stem(rec.fname), "-"))

\* C15: every record ingest_aimm_ncm_gihyeok_sigscan writes for a scan
\* identifier of file_to_sample_map carries the sample of the map key that
\* lists the identifier and the charge its file_to_charge_map key encodes
\* (an identifier under BM_NCM712 is written with BM_NCM712).
C15_SigscanRoundTrip ==
    \A k \in 1..Len(catalog) :
        SigscanWritten(k)
        => /\ \A s \in 1..Len(file_to_sample_map) :
                  InList(ScanOf(catalog[k]), file_to_sample_map[s][2])
                  => catalog[k].sample_id
                         = sample_ids[file_to_sample_map[s][1]]
           /\ \A c \in 1..Len(file_to_charge_map) :
                  InList(ScanOf(catalog[k]), file_to_charge_map[c][2])
                  => catalog[k].charge = ChargeOfKey[file_to_charge_map[c][1]]

\* how many records of the catalog cat carry the file name f
CountOf(cat, f) == Cardinality({k \in 1..Len(cat) : cat[k].fname = f})

FileNames(cat) == {cat[k].fname : k \in 1..Len(cat)}

\* the operations the step appended to the log
NewOps == SubSeq(ops', Len(ops) + 1, Len(ops'))

\* C16: ingest_aimm_ncm_wanli only replaces: a step writes a record only
\* when the catalog held a record with the same fname, and then it deletes
\* exactly one such record and writes one, the delete before the write; when
\* no such record exists it neither deletes nor writes.  Every step, and so
\* every run, leaves the number of catalog records of every fname unchanged.
C16_ReplaceOnly ==
    [][loop = "ingest_aimm_ncm_wanli"
       => /\ \A f \in FileNames(catalog) \cup FileNames(catalog') :
                 CountOf(catalog', f) = CountOf(catalog, f)
          /\ \/ NewOps = <<>> /\ catalog' = catalog
             \/ \E f \in FileNames(catalog) :
                    /\ NewOps = << <<"delete", f>>, <<"write", f>> >>
                    /\ idx \in 1..Len(files) /\ files[idx].name = f
                    /\ "sample_id" \in DOMAIN catalog'[Len(catalog')]
                    /\ catalog'[Len(catalog')].fname = f]_vars

\* a run that replaced one of two copies of a file and reported another file
\* as not part of the database
C16_Witness ==
    /\ loop = "ingest_aimm_ncm_wanli"
    /\ status = "done"
    /\ ops = << <<"delete", "BM_622_1st_43V_scan.txt">>,
                <<"write", "BM_622_1st_43V_scan.txt">> >>
    /\ CountOf(catalog, "BM_622_1st_43V_scan.txt") = 2
    /\ \E k \in 1..Len(printed) :
           printed[k] = "NCMA_Pristine_scan.txt is not part of the database"

\* C12: classification is deterministic and stateless: two calls of one
\* classifier on the same string return the same result, whatever calls
\* were made between them and whatever the caller did to the records the
\* earlier calls returned (changing a charge record that
\* get_experiment_params returned does not change a later lookup).
C12_SameInputSameResult ==
    \A i, j \in 1..Len(calls) :
        (calls[i].fn = calls[j].fn /\ calls[i].arg = calls[j].arg)
        => calls[i].out = calls[j].out

\* the lookup of 1-1 was made, the caller changed the cycle of the record
\* it got, and the lookup was made again
C12_Witness ==
    /\ Len(calls) = 2
    /\ calls[1].fn = "get_experiment_params" /\ calls[1].arg = "1-1"
    /\ calls[2] = calls[1]
    /\ held[1] = {[charge |-> Charge(5, 30, "DC"),
                   obj |-> {1}, key |-> {"1-1"}]}
    /\ held[2] = {[charge |-> Charge(1, 30, "DC"),
                   obj |-> {2}, key |-> {"1-1"}]}

Aligning == loop = "update_alignment_ncm_wanli"

\* the energy axis of every record is the raw one, shifted by the offset
\* the record notes and by nothing else
ShiftedOnce(cat) ==
    \A k \in 1..Len(cat) :
        cat[k].energy = RawEnergy
            + (IF "energy_offset" \in DOMAIN cat[k]
               THEN cat[k].energy_offset ELSE 0)

\* C17: update_alignment_ncm_wanli applies the offset at most once per
\* spectrum: a step on a record that has an energy_offset leaves the
\* catalog alone, every record a step writes carries an energy_offset (so
\* every energy axis is shifted by the noted offset and no more), and once
\* a run is complete a further run deletes nothing, writes nothing and
\* leaves every record, energies included, as it was.
C17_OffsetAppliedOnce ==
    [][Aligning
       => /\ ShiftedOnce(catalog) => ShiftedOnce(catalog')
          /\ (spectra # <<>>
              /\ ~needs_alignment(catalog[position(catalog, Head(spectra))]))
             => catalog' = catalog /\ ops' = ops
          /\ \A k \in 1..Len(catalog') :
                 catalog'[k].uid > nuid
                 => "energy_offset" \in DOMAIN catalog'[k]
          /\ run >= 2 => catalog' = catalog /\ ops' = ops]_vars

\* a second run has ended after a first one that shifted a spectrum
C17_Witness ==
    /\ Aligning
    /\ run = 2
    /\ status = "done"
    /\ ops = << <<"delete", "a.txt">>, <<"write", "a.txt">> >>
    /\ Len(printed) >= 2
    /\ printed[Len(printed)]
           = "Skipped: alignment has been updated previously"
    /\ \E k \in 1..Len(catalog) :
           catalog[k].energy = RawEnergy - 1135

\* C18: in ingest_aimm_ncm_sim and ingest_aimm_ncm_sim_xanes every spectrum
\* written for entry i carries the structure_id the search for the
\* structure index of entry i returns; when that search finds nothing, no
\* spectrum of entry i is written, and none with the structure_id found
\* for an earlier entry.
C18_OwnStructureId ==
    loop \in {"ingest_aimm_ncm_sim", "ingest_aimm_ncm_sim_xanes"}
    => \A k \in 1..Len(catalog) :
           catalog[k].dataset = "nmc_sim"
           => LET entry == file_data[catalog[k].spectra_path.id + 1]
                  hits == search_structure(catalog, entry.structure_index)
              IN  /\ hits # {}
                  /\ catalog[k].structure_id = catalog[first(hits)].uid

=============================================================================
